---- MODULE Spec2Model ----
(***************************************************************************)
(* Sysiphe v2: company name -> candidate domains -> verification ->        *)
(* e-mail harvesting -> scoring, and the batch drivers around them.        *)
(*                                                                         *)
(* Strings are sequences of one-character strings, so that the regular     *)
(* expressions, case conversions and substring tests of the Python code    *)
(* are computed character by character.                                    *)
(***************************************************************************)
EXTENDS Integers, Sequences, FiniteSets, TLC

VARIABLES
    gpc,        \* generator run: position ("start","normalized","cores","done",
                \* "renormalized")
    name,       \* generator run: the raw company name
    hashOrder,  \* per-process string-hash order (decides set iteration order);
                \* <<>> in a guess run as long as no set of two strings was iterated
    norm,       \* normalize_name(name)
    renorm,     \* normalize_name(norm), once gpc = "renormalized"
    cores,      \* domain_core_candidates(norm), as the returned list
    calls,      \* results of successive domain_candidates(domain_core_candidates(norm))
    callsV1,    \* results of successive generate_domain_candidates(norm) (first guess script)
    xpc,        \* extraction run: position ("start","done")
    text,       \* extraction run: the page body
    found,      \* extraction run: what each script's extraction function returned
    script,     \* guess run: which script runs ("v1", "v2")
    rows,       \* guess run: the input rows
    gi,         \* guess run: index of the row being processed
    dpc,        \* guess run: position ("row", "mx", "site", "done")
    gnorm,      \* guess run: norm of the current row
    cands,      \* guess run: candidates of the current row
    ck,         \* guess run: index of the candidate being tested
    mx_list,    \* guess run: MX hosts of the candidate being tested
    best,       \* guess run: best record of the current row (v2)
    results,    \* guess run: output rows
    tested,     \* guess run: counter of tested domains (v2)
    kept,       \* guess run: counter of kept companies (v2)
    mxLookups,  \* guess run: every domain handed to the DNS resolver, in order
    rowLog,     \* guess run: DNS lookups made for the current row, with their outcome
    rowHttp,    \* guess run: calls of site_responds made for the current row
    bscript,    \* batch run: which driver runs ("find_sites", "enrich", "search")
    brows,      \* batch run: the input rows (which of their fields are filled)
    links,      \* batch run: args.links of the search driver
    bi,         \* batch run: index of the row being processed
    bpc,        \* batch run: position ("row", "ddg", "pages", "done", "crashed")
    bq,         \* batch run: index of the query being tried (enrich)
    bdomain,    \* batch run: the domain found for the current row, <<>> for ""
    method,     \* batch run: the search method of the current row (find_sites)
    urls,       \* batch run: number of result links of the current row (search)
    bpage,      \* batch run: index of the page / link being visited
    fetched,    \* batch run: counter of fetched links of the current row (search)
    anyEmail,   \* batch run: the set of e-mails found for the current row is not empty
    bbest,      \* batch run: best of the row (search)
    notes,      \* batch run: per row, the notes appended to its record, in order
    contacts,   \* batch run: per row, the number of e-mail writes (contact row / contact_email)
    bresults,   \* batch run: output rows of the search driver (their reason)
    counters,   \* batch run: the counters of the final report
    rowSleeps,  \* batch run: sleeps taken for the current row
    rowFetches, \* batch run: page requests made for the current row
    rowPages,   \* batch run: per fetched link of the current row, the addresses in the
                \* order seen, their scores and the candidate of the page (search)
    sinceSleep, \* batch run: external requests made since the last sleep
    searchRaised, \* batch run: per row, a search request of the row raised
    spc,        \* scoring run: position ("start", "scored", "done")
    expected,   \* scoring run: expected_domain, <<>> for None
    emailSeq,   \* scoring run: the set of addresses, in the order its iteration yields them
    scored,     \* scoring run: score_email of every address, in that order
    picked,     \* scoring run: what pick_best_email returned
    hscript,    \* harvest run: whose harvest runs ("verify", "find_sites", "enrich")
    hpc,        \* harvest run: position ("pages", "done")
    hk,         \* harvest run: index of the page to request next
    hlog,       \* harvest run: what every request made so far gave
    hall,       \* harvest run: the set of addresses collected (find_sites, enrich)
    hresult     \* harvest run: the address returned, <<>> for none

genVars == <<gpc, name, hashOrder, norm, renorm, cores, calls, callsV1>>
exVars == <<xpc, text, found>>
guessVars == <<script, rows, gi, dpc, gnorm, cands, ck, mx_list, best, results, tested,
               kept, mxLookups, rowLog, rowHttp>>

batchVars == <<bscript, brows, links, bi, bpc, bq, bdomain, method, urls, bpage, fetched,
               anyEmail, bbest, notes, contacts, bresults, counters, rowSleeps,
               rowFetches, rowPages, sinceSleep, searchRaised>>

scoreVars == <<spc, expected, emailSeq, scored, picked>>

harvestVars == <<hscript, hpc, hk, hlog, hall, hresult>>

moreVars == <<scoreVars, harvestVars>>

vars == <<genVars, exVars, guessVars, batchVars, moreVars>>

----------------------------------------------------------------------------
(* The state of a part of the model that a run does not use *)

\* Python's None for the best record
NoBest == [none |-> TRUE]

GenIdle ==
    /\ gpc = "idle"
    /\ name = <<>>
    /\ norm = <<>>
    /\ renorm = <<>>
    /\ cores = <<>>
    /\ calls = <<>>
    /\ callsV1 = <<>>

ExIdle ==
    /\ xpc = "idle"
    /\ text = <<>>
    /\ found = <<>>

GuessIdle ==
    /\ script = "none"
    /\ rows = <<>>
    /\ gi = 0
    /\ dpc = "idle"
    /\ gnorm = <<>>
    /\ cands = <<>>
    /\ ck = 0
    /\ mx_list = <<>>
    /\ best = NoBest
    /\ results = <<>>
    /\ tested = 0
    /\ kept = 0
    /\ mxLookups = <<>>
    /\ rowLog = <<>>
    /\ rowHttp = 0

BatchIdle ==
    /\ bscript = "none"
    /\ brows = <<>>
    /\ links = 0
    /\ bi = 0
    /\ bpc = "idle"
    /\ bq = 0
    /\ bdomain = <<>>
    /\ method = ""
    /\ urls = 0
    /\ bpage = 0
    /\ fetched = 0
    /\ anyEmail = FALSE
    /\ bbest = NoBest
    /\ notes = <<>>
    /\ contacts = <<>>
    /\ bresults = <<>>
    /\ counters = <<>>
    /\ rowSleeps = 0
    /\ rowFetches = 0
    /\ rowPages = <<>>
    /\ sinceSleep = 0
    /\ searchRaised = <<>>

ScoreIdle ==
    /\ spc = "idle"
    /\ expected = <<>>
    /\ emailSeq = <<>>
    /\ scored = <<>>
    /\ picked = NoBest

HarvestIdle ==
    /\ hscript = "none"
    /\ hpc = "idle"
    /\ hk = 0
    /\ hlog = <<>>
    /\ hall = {}
    /\ hresult = <<>>

MoreIdle == ScoreIdle /\ HarvestIdle

----------------------------------------------------------------------------
(* Characters and strings *)

LowerAlpha == <<"a","b","c","d","e","f","g","h","i","j","k","l","m",
                "n","o","p","q","r","s","t","u","v","w","x","y","z">>

UpperAlpha == <<"A","B","C","D","E","F","G","H","I","J","K","L","M",
                "N","O","P","Q","R","S","T","U","V","W","X","Y","Z">>

DigitChars == {"0","1","2","3","4","5","6","7","8","9"}

Range(s) == {s[i] : i \in 1..Len(s)}

IsLowerC(c) == c \in Range(LowerAlpha)
IsUpperC(c) == c \in Range(UpperAlpha)
IsAlphaC(c) == IsLowerC(c) \/ IsUpperC(c)
IsDigitC(c) == c \in DigitChars

\* \w of Python's re on str, over the characters of the model
IsWordC(c) == IsAlphaC(c) \/ IsDigitC(c) \/ c = "_"

\* \s of Python's re, over the characters of the model
IsSpaceC(c) == c \in {" ", "\t"}

IndexOf(seq, c) == CHOOSE i \in 1..Len(seq) : seq[i] = c

UpperC(c) == IF IsLowerC(c) THEN UpperAlpha[IndexOf(LowerAlpha, c)] ELSE c
LowerC(c) == IF IsUpperC(c) THEN LowerAlpha[IndexOf(UpperAlpha, c)] ELSE c

\* str.upper() / str.lower()
Upper(s) == [i \in 1..Len(s) |-> UpperC(s[i])]
Lower(s) == [i \in 1..Len(s) |-> LowerC(s[i])]

RECURSIVE Concat(_)
\* "".join(list)
Concat(list) == IF list = <<>> THEN <<>> ELSE Head(list) \o Concat(Tail(list))

RECURSIVE JoinWith(_, _)
\* sep.join(list)
JoinWith(sep, list) ==
    IF list = <<>> THEN <<>>
    ELSE IF Len(list) = 1 THEN Head(list)
    ELSE Head(list) \o sep \o JoinWith(sep, Tail(list))

\* s[i:j] of Python with 1-based inclusive ends, empty when out of range
Slice(s, i, j) == IF i > j \/ j > Len(s) \/ i < 1 THEN <<>> ELSE SubSeq(s, i, j)

\* "sub in s" of Python
Contains(s, sub) ==
    \E i \in 1..(Len(s) - Len(sub) + 1) : SubSeq(s, i, i + Len(sub) - 1) = sub

\* s.endswith(suf)
EndsWith(s, suf) ==
    Len(suf) <= Len(s) /\ SubSeq(s, Len(s) - Len(suf) + 1, Len(s)) = suf

\* s.startswith(pre)
StartsWith(s, pre) == Len(pre) <= Len(s) /\ SubSeq(s, 1, Len(pre)) = pre

\* \b at the gap before position p (1..Len(s)+1)
WordBoundary(s, p) ==
    (p > 1 /\ IsWordC(s[p - 1])) # (p <= Len(s) /\ IsWordC(s[p]))

RECURSIVE SplitFrom(_, _, _)
\* str.split(): the maximal runs of non-whitespace characters, in order
SplitFrom(s, i, cur) ==
    IF i > Len(s) THEN (IF cur = <<>> THEN <<>> ELSE <<cur>>)
    ELSE IF IsSpaceC(s[i])
         THEN (IF cur = <<>> THEN <<>> ELSE <<cur>>) \o SplitFrom(s, i + 1, <<>>)
         ELSE SplitFrom(s, i + 1, Append(cur, s[i]))

Split(s) == SplitFrom(s, 1, <<>>)

RECURSIVE Dedup(_)
\* the first occurrence of every element, in order
Dedup(list) ==
    IF list = <<>> THEN <<>>
    ELSE LET rest == Dedup(SubSeq(list, 1, Len(list) - 1))
             last == list[Len(list)]
         IN IF last \in Range(rest) THEN rest ELSE Append(rest, last)

NoDuplicates(list) == \A i, j \in 1..Len(list) : list[i] = list[j] => i = j

----------------------------------------------------------------------------
(* normalize_name *)

\* LEGAL_SUFFIXES: each regex \b...\b as its literal alternatives, longest first
\* (HOLDINGS? is the one with two)
LEGAL_SUFFIXES == <<
    << <<"P","T","Y">> >>,
    << <<"P","T","Y"," ","L","T","D">> >>,
    << <<"L","I","M","I","T","E","D">> >>,
    << <<"L","T","D">> >>,
    << <<"P","R","O","P","R","I","E","T","A","R","Y">> >>,
    << <<"P","R","O","P","R","I","E","T","A","R","Y"," ","L","I","M","I","T","E","D">> >>,
    << <<"G","R","O","U","P">> >>,
    << <<"H","O","L","D","I","N","G","S">>, <<"H","O","L","D","I","N","G">> >>,
    << <<"A","U","S","T","R","A","L","I","A">> >> >>

\* the literal matches at position i with \b on both sides
LiteralAt(s, lit, i) ==
    /\ i + Len(lit) - 1 <= Len(s)
    /\ SubSeq(s, i, i + Len(lit) - 1) = lit
    /\ WordBoundary(s, i)
    /\ WordBoundary(s, i + Len(lit))

\* length of the regex match that starts at i, 0 when there is none
MatchLenAt(s, alts, i) ==
    IF \E k \in 1..Len(alts) : LiteralAt(s, alts[k], i)
    THEN Len(alts[CHOOSE k \in 1..Len(alts) :
                    /\ LiteralAt(s, alts[k], i)
                    /\ \A m \in 1..(k - 1) : ~LiteralAt(s, alts[m], i)])
    ELSE 0

RECURSIVE ReSubFrom(_, _, _)
\* re.sub(suf, "", s): non-overlapping matches removed, scanning left to right
ReSubFrom(s, alts, i) ==
    IF i > Len(s) THEN <<>>
    ELSE LET n == MatchLenAt(s, alts, i)
         IN IF n > 0 THEN ReSubFrom(s, alts, i + n)
            ELSE <<s[i]>> \o ReSubFrom(s, alts, i + 1)

ReSub(alts, s) == ReSubFrom(s, alts, 1)

RECURSIVE RemoveSuffixes(_, _)
\* for suf in LEGAL_SUFFIXES: n = re.sub(suf, "", n)
RemoveSuffixes(s, k) ==
    IF k > Len(LEGAL_SUFFIXES) THEN s
    ELSE RemoveSuffixes(ReSub(LEGAL_SUFFIXES[k], s), k + 1)

\* re.sub(r"[^A-Z0-9 ]", "", n)
StripNonAlnum(s) == SelectSeq(s, LAMBDA c : IsUpperC(c) \/ IsDigitC(c) \/ c = " ")

RECURSIVE CollapseFrom(_, _)
\* re.sub(r"\s+", " ", n)
CollapseFrom(s, i) ==
    IF i > Len(s) THEN <<>>
    ELSE IF IsSpaceC(s[i])
         THEN IF i > 1 /\ IsSpaceC(s[i - 1]) THEN CollapseFrom(s, i + 1)
              ELSE <<" ">> \o CollapseFrom(s, i + 1)
         ELSE <<s[i]>> \o CollapseFrom(s, i + 1)

CollapseSpaces(s) == CollapseFrom(s, 1)

RECURSIVE Strip(_)
\* str.strip()
Strip(s) ==
    IF s = <<>> THEN s
    ELSE IF IsSpaceC(Head(s)) THEN Strip(Tail(s))
    ELSE IF IsSpaceC(s[Len(s)]) THEN Strip(SubSeq(s, 1, Len(s) - 1))
    ELSE s

normalize_name(n) ==
    Lower(Strip(CollapseSpaces(StripNonAlnum(RemoveSuffixes(Upper(n), 1)))))

----------------------------------------------------------------------------
(* Domain candidate generators *)

DOMAIN_SUFFIXES_AU == <<
    <<".","c","o","m",".","a","u">>,
    <<".","n","e","t",".","a","u">>,
    <<".","o","r","g",".","a","u">>,
    <<".","c","o","m">> >>

GENERIC_TOKENS == {
    <<"i","n","s","u","r","a","n","c","e">>,
    <<"s","t","e","e","l">>,
    <<"h","a","r","d","w","a","r","e">>,
    <<"i","n","v","e","s","t","m","e","n","t","s">>,
    <<"f","i","n","a","n","c","e">>,
    <<"s","o","l","u","t","i","o","n","s">>,
    <<"s","e","r","v","i","c","e","s">>,
    <<"g","r","o","u","p">> }

MinCoreLen == 4
MaxJoinedLen == 24
MaxDashedLen == 28
MaxCore2Len == 18

\* the three forms a core is built in: 1 joined, 2 dashed, 3 first two tokens
NumCoreForms == 3

\* the string each form builds from the tokens (core2 needs two tokens)
CoreOfForm(tokens, form) ==
    CASE form = 1 -> Concat(tokens)
      [] form = 2 -> JoinWith(<<"-">>, tokens)
      [] OTHER    -> IF Len(tokens) >= 2 THEN Concat(SubSeq(tokens, 1, 2)) ELSE <<>>

MaxLenOfForm(form) ==
    CASE form = 1 -> MaxJoinedLen
      [] form = 2 -> MaxDashedLen
      [] OTHER    -> MaxCore2Len

\* faulty variant: the ceilings are not checked
FormAcceptedNoCeiling(tokens, form) ==
    /\ form = 3 => Len(tokens) >= 2
    /\ MinCoreLen <= Len(CoreOfForm(tokens, form))

\* the guard in front of each cores.add(...)
FormAccepted(tokens, form) ==
    /\ form = 3 => Len(tokens) >= 2
    /\ MinCoreLen <= Len(CoreOfForm(tokens, form))
    /\ Len(CoreOfForm(tokens, form)) <= MaxLenOfForm(form)

\* faulty variant: a single generic token is not refused
FailsClosedOnlyEmpty(tokens) == tokens = <<>>

\* the early returns of domain_core_candidates: no token, or one generic token
FailsClosed(tokens) ==
    \/ tokens = <<>>
    \/ Len(tokens) = 1 /\ tokens[1] \in GENERIC_TOKENS

\* faulty variant: cores kept as a list, the same string added once per form
AddsNewCoreNoDedup(tokens, form) == FormAccepted(tokens, form)

\* cores.add(...) changes the set only for the first form that builds a string
AddsNewCore(tokens, form) ==
    /\ FormAccepted(tokens, form)
    /\ \A g \in 1..(form - 1) :
          FormAccepted(tokens, g) => CoreOfForm(tokens, g) # CoreOfForm(tokens, form)

RECURSIVE ListOfCoreSet(_, _, _)
\* list(cores): a set is iterated in the order of the process's string hashes;
\* order[r] is the form whose string sits at rank r of that order
ListOfCoreSet(tokens, order, r) ==
    IF r > NumCoreForms THEN <<>>
    ELSE (IF AddsNewCore(tokens, order[r])
          THEN <<CoreOfForm(tokens, order[r])>> ELSE <<>>)
         \o ListOfCoreSet(tokens, order, r + 1)

domain_core_candidates(nrm, order) ==
    LET tokens == Split(nrm)
    IN IF FailsClosed(tokens) THEN <<>> ELSE ListOfCoreSet(tokens, order, 1)

RECURSIVE domain_candidates(_)
domain_candidates(cs) ==
    IF cs = <<>> THEN <<>>
    ELSE [k \in 1..Len(DOMAIN_SUFFIXES_AU) |-> Head(cs) \o DOMAIN_SUFFIXES_AU[k]]
         \o domain_candidates(Tail(cs))

\* first guess script: for core in {joined, dashed}: if len(core) >= 4
V1Cores(base, order) ==
    LET tokens == Split(base)
        joined == Concat(tokens)
        dashed == JoinWith(<<"-">>, tokens)
        first  == IF \E r \in 1..NumCoreForms :
                        order[r] = 1 /\ \A q \in 1..(r - 1) : order[q] # 2
                  THEN <<joined, dashed>> ELSE <<dashed, joined>>
    IN SelectSeq(Dedup(first), LAMBDA c : Len(c) >= MinCoreLen)

\* list(candidates) of the first guess script: the set of core + suffix, iterated
\* in hash order (core by core, suffix by suffix, or the suffixes reversed)
generate_domain_candidates(base, order) ==
    LET cs   == V1Cores(base, order)
        ns   == Len(DOMAIN_SUFFIXES_AU)
        n    == Len(cs) * ns
        pair(i) == CASE order[1] = 3 -> <<((i - 1) % Len(cs)) + 1, ((i - 1) \div Len(cs)) + 1>>
                     [] order[2] = 3 -> <<((i - 1) \div ns) + 1, ns - ((i - 1) % ns)>>
                     [] OTHER        -> <<((i - 1) \div ns) + 1, ((i - 1) % ns) + 1>>
    IN [i \in 1..n |-> cs[pair(i)[1]] \o DOMAIN_SUFFIXES_AU[pair(i)[2]]]

----------------------------------------------------------------------------
(* Inputs of the generator runs *)

MaxPieces == 3
MaxCalls == 2

Pieces == {
    <<"A","c","m","e">>,
    <<"S","t","e","e","l">>,
    <<"P","t","y">>,
    <<"L","T","D">>,
    <<"L","t">>,
    <<"d">>,
    <<"a","b","c","d","e","f","g","h","i">> }

Separators == { <<" ">>, <<".">> }

RECURSIVE NamesOf(_, _)
\* the names of k pieces, written with the separator s between them
NamesOf(k, s) ==
    IF k = 0 THEN { <<>> }
    ELSE IF k = 1 THEN Pieces
    ELSE { n \o s \o p : n \in NamesOf(k - 1, s), p \in Pieces }

Names == UNION { NamesOf(k, s) : k \in 0..MaxPieces, s \in Separators }

HashOrders == Permutations(1..NumCoreForms)

\* the orders the process can turn out to have, given what was observed of it
OrdersFor(order) == IF order = <<>> THEN HashOrders ELSE {order}

----------------------------------------------------------------------------
(* Generator runs: one name through normalize_name and the generators *)

GenInit ==
    /\ gpc = "start"
    /\ name \in Names
    /\ hashOrder \in HashOrders
    /\ norm = <<>>
    /\ renorm = <<>>
    /\ cores = <<>>
    /\ calls = <<>>
    /\ callsV1 = <<>>
    /\ ExIdle
    /\ GuessIdle
    /\ BatchIdle
    /\ MoreIdle

GenNormalize ==
    /\ gpc = "start"
    /\ norm' = normalize_name(name)
    /\ gpc' = "normalized"
    /\ UNCHANGED <<name, hashOrder, renorm, cores, calls, callsV1>>
    /\ UNCHANGED <<exVars, guessVars, batchVars, moreVars>>

GenCores ==
    /\ gpc = "normalized"
    /\ Len(calls) < MaxCalls
    /\ cores' = domain_core_candidates(norm, hashOrder)
    /\ gpc' = "cores"
    /\ UNCHANGED <<name, hashOrder, norm, renorm, calls, callsV1>>
    /\ UNCHANGED <<exVars, guessVars, batchVars, moreVars>>

GenCandidates ==
    /\ gpc = "cores"
    /\ calls' = Append(calls, domain_candidates(cores))
    /\ gpc' = "normalized"
    /\ UNCHANGED <<name, hashOrder, norm, renorm, cores, callsV1>>
    /\ UNCHANGED <<exVars, guessVars, batchVars, moreVars>>

GenV1 ==
    /\ gpc = "normalized"
    /\ Len(calls) = MaxCalls
    /\ callsV1' = Append(callsV1, generate_domain_candidates(norm, hashOrder))
    /\ gpc' = IF Len(callsV1') = MaxCalls THEN "done" ELSE "normalized"
    /\ UNCHANGED <<name, hashOrder, norm, renorm, cores, calls>>
    /\ UNCHANGED <<exVars, guessVars, batchVars, moreVars>>

\* the result of normalize_name handed to normalize_name again
GenRenormalize ==
    /\ gpc = "done"
    /\ renorm' = normalize_name(norm)
    /\ gpc' = "renormalized"
    /\ UNCHANGED <<name, hashOrder, norm, cores, calls, callsV1>>
    /\ UNCHANGED <<exVars, guessVars, batchVars, moreVars>>

GenNext == GenNormalize \/ GenCores \/ GenCandidates \/ GenV1 \/ GenRenormalize

SpecGen == GenInit /\ [][GenNext]_vars

----------------------------------------------------------------------------
(* E-mail extraction *)

\* characters in code-point order, for sorted()
AsciiOrder == <<" ", "%", "+", ",", "-", ".", "0","1","2","3","4","5","6","7","8","9",
                "@">> \o UpperAlpha \o <<"_">> \o LowerAlpha

Ord(c) == IndexOf(AsciiOrder, c)

RECURSIVE StrLess(_, _)
\* a < b of Python on str
StrLess(a, b) ==
    IF b = <<>> THEN FALSE
    ELSE IF a = <<>> THEN TRUE
    ELSE IF Head(a) = Head(b) THEN StrLess(Tail(a), Tail(b))
    ELSE Ord(Head(a)) < Ord(Head(b))

RECURSIVE Sorted(_)
\* sorted(set)
Sorted(set) ==
    IF set = {} THEN <<>>
    ELSE LET least == CHOOSE a \in set : \A b \in set \ {a} : StrLess(a, b)
         IN <<least>> \o Sorted(set \ {least})

IsSortedList(list) == \A i \in 1..(Len(list) - 1) : StrLess(list[i], list[i + 1])

\* [a-zA-Z0-9._%+-]
IsLocalC(c) == IsAlphaC(c) \/ IsDigitC(c) \/ c \in {".", "_", "%", "+", "-"}
\* [a-zA-Z0-9-]
IsLabelC(c) == IsAlphaC(c) \/ IsDigitC(c) \/ c = "-"
\* [a-zA-Z0-9.-]
IsHostC(c) == IsAlphaC(c) \/ IsDigitC(c) \/ c \in {".", "-"}

\* last position of the run of characters of a class that starts at i (i - 1: none)
RunEnd(s, i, InClass(_)) ==
    LET out == { j \in i..Len(s) : ~InClass(s[j]) }
    IN IF out = {} THEN Len(s)
       ELSE (CHOOSE j \in out : \A m \in out : j <= m) - 1

\* [a-zA-Z]{2,}\b from p: its end, 0 when it does not match
TldEnd(s, p) ==
    LET e == RunEnd(s, p, IsAlphaC)
    IN IF e - p + 1 >= 2 /\ WordBoundary(s, e + 1) THEN e ELSE 0

\* \b[a-zA-Z0-9._%+-]+@ from i: the position of the @, 0 when it does not match
LocalPartAt(s, i) ==
    IF i <= Len(s) /\ IsLocalC(s[i]) /\ WordBoundary(s, i)
    THEN LET e == RunEnd(s, i, IsLocalC)
         IN IF e + 1 <= Len(s) /\ s[e + 1] = "@" THEN e + 1 ELSE 0
    ELSE 0

RECURSIVE LabelsThenTld(_, _)
\* ([a-zA-Z0-9-]+\.)+[a-zA-Z]{2,}\b from p, the group repeated as often as it can
LabelsThenTld(s, p) ==
    LET e == RunEnd(s, p, IsLabelC)
    IN IF e < p \/ e + 1 > Len(s) \/ s[e + 1] # "." THEN 0
       ELSE LET more == LabelsThenTld(s, e + 2)
            IN IF more > 0 THEN more ELSE TldEnd(s, e + 2)

\* [a-zA-Z0-9.-]+\.[a-zA-Z]{2,}\b from p, the first part as long as it can be
HostThenTld(s, p) ==
    LET e == RunEnd(s, p, IsHostC)
        dots == { q \in p..(e - 1) : s[q + 1] = "." /\ TldEnd(s, q + 2) > 0 }
    IN IF dots = {} THEN 0
       ELSE TldEnd(s, (CHOOSE q \in dots : \A m \in dots : m <= q) + 2)

\* end of the match of EMAIL_RE that starts at i, 0 when there is none;
\* grouped: the pattern of sysiphe_guess_verify_email.py, else the one of the
\* other scripts
EmailMatchEnd(s, i, grouped) ==
    LET at == LocalPartAt(s, i)
    IN IF at = 0 THEN 0
       ELSE IF grouped THEN LabelsThenTld(s, at + 1) ELSE HostThenTld(s, at + 1)

RECURSIVE FindAllFrom(_, _, _)
\* EMAIL_RE.finditer / findall: the non-overlapping matches, left to right
FindAllFrom(s, i, grouped) ==
    IF i > Len(s) THEN <<>>
    ELSE LET e == EmailMatchEnd(s, i, grouped)
         IN IF e > 0 THEN <<SubSeq(s, i, e)>> \o FindAllFrom(s, e + 1, grouped)
            ELSE FindAllFrom(s, i + 1, grouped)

FindAll(s, grouped) == FindAllFrom(s, 1, grouped)

S_example_com == <<"e","x","a","m","p","l","e",".","c","o","m">>
S_yourcompany_com == <<"y","o","u","r","c","o","m","p","a","n","y",".","c","o","m">>
S_email_com == <<"e","m","a","i","l",".","c","o","m">>
S_test_com == <<"t","e","s","t",".","c","o","m">>
S_domain_com == <<"d","o","m","a","i","n",".","c","o","m">>

\* BAD_EMAIL_HINTS of sysiphe_guess_verify_email.py
BAD_EMAIL_HINTS_VERIFY ==
    { S_example_com, S_yourcompany_com, S_email_com, S_test_com, S_domain_com }

\* BAD_EMAIL_HINTS of the pipeline scripts (find_sites, enrich_contacts, scrape)
BAD_EMAIL_HINTS == { S_example_com, S_yourcompany_com, S_email_com }

\* any(bad in e for bad in hints)
HasBadHint(e, hints) == \E bad \in hints : Contains(e, bad)

\* the body of every extract_emails: lower-case set of the matches, filtered, sorted
ExtractWith(s, grouped, hints) ==
    LET emails == { Lower(m) : m \in Range(FindAll(s, grouped)) }
    IN Sorted({ e \in emails : ~HasBadHint(e, hints) })

\* sysiphe_guess_verify_email.py
extract_emails_verify(s) == ExtractWith(s, TRUE, BAD_EMAIL_HINTS_VERIFY)

\* sysiphe_find_sites_and_emails_v2.py
extract_emails(s) == ExtractWith(s, FALSE, BAD_EMAIL_HINTS)

\* sysiphe_enrich_contacts_v1.py
extract_emails_from_html(s) == ExtractWith(s, FALSE, BAD_EMAIL_HINTS)

\* sysiphe_search_email.py: set(EMAIL_RE.findall(text)), neither lowered nor filtered
extract_emails_from_text(s) == Range(FindAll(s, FALSE))

----------------------------------------------------------------------------
(* Extraction runs: one page body through the extraction functions *)

MaxWords == 3

Words == {
    <<"i","n","f","o","@","a","c","m","e",".","a","u">>,
    <<"I","N","F","O","@","a","c","m","e",".","a","u">>,
    <<"B","o","b","@","T","e","s","t",".","c","o","m">>,
    <<"x","@","e","x","a","m","p","l","e",".","c","o","m">>,
    <<"t","e","s","t",".","c","o","m","@","a","c","m","e",".","a","u">>,
    <<"c","o","n","t","a","c","t","@","a","c","m","e",".","a","u","2">>,
    <<"h","e","l","l","o">> }

RECURSIVE TextsOf(_)
TextsOf(k) ==
    IF k = 0 THEN { <<>> }
    ELSE IF k = 1 THEN Words
    ELSE { t \o <<" ">> \o w : t \in TextsOf(k - 1), w \in Words }

Texts == UNION { TextsOf(k) : k \in 0..MaxWords }

ExInit ==
    /\ xpc = "start"
    /\ text \in Texts
    /\ found = <<>>
    /\ GenIdle
    /\ GuessIdle
    /\ BatchIdle
    /\ MoreIdle
    /\ hashOrder = [r \in 1..NumCoreForms |-> r]

\* found[1]: site harvester of the guess/verify script, found[2]: of the site
\* finder, found[3]: of the enrich script, found[4]: the search script's set
ExExtract ==
    /\ xpc = "start"
    /\ found' = << extract_emails_verify(text), extract_emails(text),
                   extract_emails_from_html(text), extract_emails_from_text(text) >>
    /\ xpc' = "done"
    /\ UNCHANGED text
    /\ UNCHANGED <<genVars, guessVars, batchVars, moreVars>>

ExNext == ExExtract

SpecExtract == ExInit /\ [][ExNext]_vars

----------------------------------------------------------------------------
(* The guess scripts: sysiphe_guess_emails.py (v1), sysiphe_guess_emails_v2.py *)

PREFERRED_PREFIXES_AU == <<
    <<"e","n","q","u","i","r","i","e","s">>, <<"e","n","q","u","i","r","y">>,
    <<"c","o","n","t","a","c","t">>, <<"i","n","f","o">>, <<"h","e","l","l","o">>,
    <<"s","a","l","e","s">>, <<"s","u","p","p","o","r","t">> >>

EMAIL_PREFIXES_AU == <<
    <<"i","n","f","o">>, <<"c","o","n","t","a","c","t">>, <<"h","e","l","l","o">>,
    <<"e","n","q","u","i","r","i","e","s">>, <<"e","n","q","u","i","r","y">>,
    <<"s","a","l","e","s">>, <<"s","u","p","p","o","r","t">>, <<"a","d","m","i","n">> >>

\* for p in PREFERRED_PREFIXES_AU: return f"{p}@{domain}"
best_email(domain) == PREFERRED_PREFIXES_AU[1] \o <<"@">> \o domain

\* [f"{p}@{domain}" for p in EMAIL_PREFIXES_AU]
generate_emails(domain) ==
    [k \in 1..Len(EMAIL_PREFIXES_AU) |-> EMAIL_PREFIXES_AU[k] \o <<"@">> \o domain]

\* domain.split(".")[0]
FirstLabel(domain) == SubSeq(domain, 1, RunEnd(domain, 1, LAMBDA c : c # "."))

Min(a, b) == IF a <= b THEN a ELSE b

confidence_score(domain, norm_name, mx, site) ==
    LET tokens == Split(norm_name)
        core == FirstLabel(domain)
    IN Min( (IF mx # <<>> THEN 40 ELSE 0)
            + (IF site THEN 30 ELSE 0)
            + (IF tokens # <<>> /\ Contains(core, tokens[1]) THEN 20 ELSE 0)
            + (IF Len(tokens) >= 2 /\ Contains(core, tokens[2]) THEN 10 ELSE 0),
            100 )

\* is_obvious_sink: no MX list is held to be a sink
is_obvious_sink(mx) == FALSE

\* what mx_hosts can return: no host (also on any resolver error), or the hosts
MxAnswers == { <<>>, << <<"m","x","1">> >> }

\* what site_responds can return (https, then http: TRUE on the first status < 500)
SiteOutcomes == BOOLEAN

MaxRows == 2

S_Steel == <<"S","t","e","e","l">>
S_Acme == <<"A","c","m","e">>

GuessNames == {
    <<>>,
    <<"P","t","y">>,
    S_Steel,
    <<"L","t">>,
    <<"T","e","l","e","c","o","m","m","u","n","i","c","a","t","i","o","n"," ",
      "S","e","r","v","i","c","e","s">> }

\* the input rows: most with only legal_name, one with a business_name too
GuessRows ==
    { [legal_name |-> n, business_name |-> <<>>] : n \in GuessNames }
    \cup { [legal_name |-> S_Steel, business_name |-> S_Acme] }

RowSeqs(S) == UNION { [1..n -> S] : n \in 1..MaxRows }

\* name = business_name or legal_name (v2), both stripped
DisplayName(r) ==
    IF Strip(r.business_name) # <<>> THEN Strip(r.business_name) ELSE Strip(r.legal_name)

\* legal_name = r.get("legal_name") or r.get("business_name") or "" (v1)
LegalNameV1(r) == IF r.legal_name # <<>> THEN r.legal_name ELSE r.business_name

GuessInit ==
    /\ script \in {"v1", "v2"}
    /\ rows \in RowSeqs(GuessRows)
    /\ hashOrder = <<>>
    /\ gi = 1
    /\ dpc = "row"
    /\ gnorm = <<>>
    /\ cands = <<>>
    /\ ck = 0
    /\ mx_list = <<>>
    /\ best = NoBest
    /\ results = <<>>
    /\ tested = 0
    /\ kept = 0
    /\ mxLookups = <<>>
    /\ rowLog = <<>>
    /\ rowHttp = 0
    /\ GenIdle
    /\ ExIdle
    /\ BatchIdle
    /\ MoreIdle

\* v2, lines 163-172: no name, or no core: continue
G2SkipRow ==
    /\ script = "v2" /\ dpc = "row" /\ gi <= Len(rows)
    /\ LET nm == DisplayName(rows[gi])
           nrm == IF nm = <<>> THEN <<>> ELSE normalize_name(nm)
       IN /\ nm = <<>> \/ \A o \in OrdersFor(hashOrder) :
                              domain_core_candidates(nrm, o) = <<>>
          /\ gnorm' = nrm
    /\ cands' = <<>>
    /\ rowLog' = <<>>
    /\ rowHttp' = 0
    /\ gi' = gi + 1
    /\ UNCHANGED <<script, rows, dpc, ck, mx_list, best, results, tested, kept, mxLookups>>
    /\ UNCHANGED <<gpc, name, hashOrder, norm, renorm, cores, calls, callsV1, exVars, batchVars,
                   moreVars>>

\* v2, lines 163-176: the candidates of a row that has cores
G2StartRow ==
    /\ script = "v2" /\ dpc = "row" /\ gi <= Len(rows)
    /\ LET nm == DisplayName(rows[gi])
           nrm == normalize_name(nm)
       IN /\ nm # <<>>
          /\ gnorm' = nrm
          /\ \E o \in OrdersFor(hashOrder) :
                LET cs == domain_core_candidates(nrm, o)
                IN /\ cs # <<>>
                   /\ cands' = domain_candidates(cs)
                   /\ hashOrder' = IF Len(cs) >= 2 THEN o ELSE hashOrder
    /\ best' = NoBest
    /\ ck' = 1
    /\ rowLog' = <<>>
    /\ rowHttp' = 0
    /\ dpc' = "mx"
    /\ UNCHANGED <<script, rows, gi, mx_list, results, tested, kept, mxLookups>>
    /\ UNCHANGED <<gpc, name, norm, renorm, cores, calls, callsV1, exVars, batchVars, moreVars>>

\* v2, lines 178-186: tested += 1; mx_list = mx_hosts(dom); if not mx_list: continue
G2Lookup ==
    /\ script = "v2" /\ dpc = "mx" /\ ck <= Len(cands)
    /\ \E mx \in MxAnswers :
          /\ mx_list' = mx
          /\ rowLog' = Append(rowLog, [dom |-> cands[ck], mx |-> mx # <<>>])
          /\ IF mx = <<>> \/ is_obvious_sink(mx)
             THEN ck' = ck + 1 /\ dpc' = "mx"
             ELSE ck' = ck /\ dpc' = "site"
    /\ tested' = tested + 1
    /\ mxLookups' = Append(mxLookups, cands[ck])
    /\ UNCHANGED <<script, rows, gi, gnorm, cands, best, results, kept, rowHttp>>
    /\ UNCHANGED <<genVars, exVars, batchVars, moreVars>>

\* faulty variant: a domain is kept only when its site responds
G2ProbeSiteGated ==
    /\ script = "v2" /\ dpc = "site"
    /\ \E ok \in SiteOutcomes :
          LET dom == cands[ck]
              score == confidence_score(dom, gnorm, mx_list, ok)
          IN /\ rowHttp' = rowHttp + 1
             /\ best' = IF ok /\ (best = NoBest \/ score > best.confidence)
                        THEN [ legal_name |-> Strip(rows[gi].legal_name),
                               display_name |-> DisplayName(rows[gi]),
                               guessed_domain |-> dom,
                               email |-> best_email(dom),
                               confidence |-> score,
                               site_ok |-> IF ok THEN "yes" ELSE "no",
                               mx |-> mx_list,
                               method |-> "guess_mx_http" ]
                        ELSE best
    /\ ck' = ck + 1
    /\ dpc' = "mx"
    /\ UNCHANGED <<script, rows, gi, gnorm, cands, mx_list, results, tested, kept,
                   mxLookups, rowLog>>
    /\ UNCHANGED <<genVars, exVars, batchVars, moreVars>>

\* v2, lines 188-204: site_ok = site_responds(dom); score; keep the best so far
G2Probe ==
    /\ script = "v2" /\ dpc = "site"
    /\ \E ok \in SiteOutcomes :
          LET dom == cands[ck]
              score == confidence_score(dom, gnorm, mx_list, ok)
          IN /\ rowHttp' = rowHttp + 1
             /\ best' = IF best = NoBest \/ score > best.confidence
                        THEN [ legal_name |-> Strip(rows[gi].legal_name),
                               display_name |-> DisplayName(rows[gi]),
                               guessed_domain |-> dom,
                               email |-> best_email(dom),
                               confidence |-> score,
                               site_ok |-> IF ok THEN "yes" ELSE "no",
                               mx |-> mx_list,
                               method |-> "guess_mx_http" ]
                        ELSE best
    /\ ck' = ck + 1
    /\ dpc' = "mx"
    /\ UNCHANGED <<script, rows, gi, gnorm, cands, mx_list, results, tested, kept,
                   mxLookups, rowLog>>
    /\ UNCHANGED <<genVars, exVars, batchVars, moreVars>>

\* v2, lines 206-208: if best: results.append(best); kept += 1
G2EndRow ==
    /\ script = "v2" /\ dpc = "mx" /\ ck > Len(cands)
    /\ IF best # NoBest
       THEN results' = Append(results, best) /\ kept' = kept + 1
       ELSE UNCHANGED <<results, kept>>
    /\ gi' = gi + 1
    /\ dpc' = "row"
    /\ cands' = <<>> /\ ck' = 0 /\ mx_list' = <<>> /\ best' = NoBest
    /\ rowLog' = <<>> /\ rowHttp' = 0
    /\ UNCHANGED <<script, rows, gnorm, tested, mxLookups>>
    /\ UNCHANGED <<genVars, exVars, batchVars, moreVars>>

\* v1, lines 78-80: no name: continue
G1SkipRow ==
    /\ script = "v1" /\ dpc = "row" /\ gi <= Len(rows)
    /\ Strip(LegalNameV1(rows[gi])) = <<>>
    /\ cands' = <<>>
    /\ rowLog' = <<>>
    /\ gi' = gi + 1
    /\ UNCHANGED <<script, rows, dpc, gnorm, ck, mx_list, best, results, tested, kept,
                   mxLookups, rowHttp>>
    /\ UNCHANGED <<genVars, exVars, batchVars, moreVars>>

\* v1, lines 82-83
G1StartRow ==
    /\ script = "v1" /\ dpc = "row" /\ gi <= Len(rows)
    /\ Strip(LegalNameV1(rows[gi])) # <<>>
    /\ gnorm' = normalize_name(LegalNameV1(rows[gi]))
    /\ \E o \in OrdersFor(hashOrder) :
          /\ cands' = generate_domain_candidates(gnorm', o)
          /\ hashOrder' = IF Len(cands') >= 2 THEN o ELSE hashOrder
    /\ ck' = 1
    /\ rowLog' = <<>>
    /\ dpc' = "mx"
    /\ UNCHANGED <<script, rows, gi, mx_list, best, results, tested, kept, mxLookups,
                   rowHttp>>
    /\ UNCHANGED <<gpc, name, norm, renorm, cores, calls, callsV1, exVars, batchVars, moreVars>>

\* v1, lines 85-96: if has_mx(dom): the eight addresses of dom; break
G1Lookup ==
    /\ script = "v1" /\ dpc = "mx" /\ ck <= Len(cands)
    /\ \E has \in BOOLEAN :
          /\ rowLog' = Append(rowLog, [dom |-> cands[ck], mx |-> has])
          /\ IF has
             THEN /\ results' = results \o
                        [k \in 1..Len(EMAIL_PREFIXES_AU) |->
                            [ legal_name |-> LegalNameV1(rows[gi]),
                              guessed_domain |-> cands[ck],
                              email |-> generate_emails(cands[ck])[k],
                              method |-> "guess_mx" ]]
                  /\ gi' = gi + 1
                  /\ dpc' = "row"
                  /\ ck' = ck
             ELSE /\ ck' = ck + 1
                  /\ UNCHANGED <<results, gi, dpc>>
    /\ mxLookups' = Append(mxLookups, cands[ck])
    /\ UNCHANGED <<script, rows, gnorm, cands, mx_list, best, tested, kept, rowHttp>>
    /\ UNCHANGED <<genVars, exVars, batchVars, moreVars>>

\* v1: the candidates are exhausted without an MX
G1EndRow ==
    /\ script = "v1" /\ dpc = "mx" /\ ck > Len(cands)
    /\ gi' = gi + 1
    /\ dpc' = "row"
    /\ cands' = <<>> /\ ck' = 0 /\ rowLog' = <<>>
    /\ UNCHANGED <<script, rows, gnorm, mx_list, best, results, tested, kept,
                   mxLookups, rowHttp>>
    /\ UNCHANGED <<genVars, exVars, batchVars, moreVars>>

\* both: the rows are exhausted, the output file is written from results
GuessFinish ==
    /\ dpc = "row" /\ gi > Len(rows)
    /\ dpc' = "done"
    /\ UNCHANGED <<script, rows, gi, gnorm, cands, ck, mx_list, best, results, tested,
                   kept, mxLookups, rowLog, rowHttp>>
    /\ UNCHANGED <<genVars, exVars, batchVars, moreVars>>

GuessNext ==
    \/ G2SkipRow \/ G2StartRow \/ G2Lookup \/ G2Probe \/ G2EndRow
    \/ G1SkipRow \/ G1StartRow \/ G1Lookup \/ G1EndRow
    \/ GuessFinish

SpecGuess == GuessInit /\ [][GuessNext]_vars

----------------------------------------------------------------------------
(* Properties of normalize_name and of the generators *)

S_acme == <<"a","c","m","e">>
S_steel == <<"s","t","e","e","l">>

\* the candidate is core + suffix for one of the configured suffixes
BuiltFrom(cand, core) ==
    \E k \in 1..Len(DOMAIN_SUFFIXES_AU) : cand = core \o DOMAIN_SUFFIXES_AU[k]

FromFullCore(tokens, cand) ==
    BuiltFrom(cand, CoreOfForm(tokens, 1)) \/ BuiltFrom(cand, CoreOfForm(tokens, 2))

FromAbbreviationCore(tokens, cand) ==
    /\ Len(tokens) >= 2
    /\ BuiltFrom(cand, CoreOfForm(tokens, 3))
    /\ ~FromFullCore(tokens, cand)

\* C5: the generator returns its candidates in a fixed priority order: every
\* candidate built from the joined or hyphenated core comes before every
\* candidate built from the two-token core, and for tokens [acme, steel] the
\* candidates with suffixes .com.au and .com are acmesteel.com.au,
\* acme-steel.com.au, acmesteel.com, acme-steel.com, in that order.
C5_FixedPriorityOrder ==
    Len(calls) >= 1 =>
        LET out == calls[1]
            tokens == Split(norm)
            two == SelectSeq(out, LAMBDA c :
                       \/ EndsWith(c, DOMAIN_SUFFIXES_AU[1])
                       \/ EndsWith(c, DOMAIN_SUFFIXES_AU[4]))
        IN /\ \A i, j \in 1..Len(out) :
                  (FromFullCore(tokens, out[i]) /\ FromAbbreviationCore(tokens, out[j]))
                      => i < j
           /\ tokens = <<S_acme, S_steel>> =>
                  two = << S_acme \o S_steel \o DOMAIN_SUFFIXES_AU[1],
                           S_acme \o <<"-">> \o S_steel \o DOMAIN_SUFFIXES_AU[1],
                           S_acme \o S_steel \o DOMAIN_SUFFIXES_AU[4],
                           S_acme \o <<"-">> \o S_steel \o DOMAIN_SUFFIXES_AU[4] >>

MarkerWords == UNION { { Lower(LEGAL_SUFFIXES[k][a]) : a \in 1..Len(LEGAL_SUFFIXES[k]) } :
                        k \in 1..Len(LEGAL_SUFFIXES) }

\* the name holds a match of one of the patterns (any letter case)
HasMarkerWord(n) ==
    \E k \in 1..Len(LEGAL_SUFFIXES) : \E i \in 1..Len(n) :
        MatchLenAt(Upper(n), LEGAL_SUFFIXES[k], i) > 0

RECURSIVE IsSubsequence(_, _)
\* the characters of a occur in b in the same order
IsSubsequence(a, b) ==
    IF a = <<>> THEN TRUE
    ELSE IF b = <<>> THEN FALSE
    ELSE IF Head(a) = Head(b) THEN IsSubsequence(Tail(a), Tail(b))
    ELSE IsSubsequence(a, Tail(b))

\* C9: for a name that contains a legal-entity marker as a whole word,
\* normalize_name returns a lower-case string none of whose tokens is a marker,
\* the remaining characters keeping their order; "Acme Pty LTD" gives "acme".
C9_MarkersRemoved ==
    (gpc # "start" /\ HasMarkerWord(name)) =>
        /\ norm = Lower(norm)
        /\ \A t \in 1..Len(Split(norm)) : Split(norm)[t] \notin MarkerWords
        /\ IsSubsequence(Concat(Split(norm)), Lower(name))
        /\ name = <<"A","c","m","e"," ","P","t","y"," ","L","T","D">> => norm = S_acme

\* C21: normalize_name is idempotent and its result canonical: handing the
\* result to normalize_name again returns it unchanged, that is, the result
\* holds no legal-entity marker as a whole word, also not one that shows only
\* once the punctuation is stripped or another marker is removed.
C21_NormalizeIdempotent ==
    gpc = "renormalized" =>
        /\ renorm = norm
        /\ ~HasMarkerWord(norm)

----------------------------------------------------------------------------
(* Properties of the extraction functions *)

\* the part of an address behind its first @
DomainPortion(e) ==
    LET ats == { i \in 1..Len(e) : e[i] = "@" }
    IN IF ats = {} THEN <<>>
       ELSE SubSeq(e, (CHOOSE i \in ats : \A j \in ats : i <= j) + 1, Len(e))

\* C10: for every page body the extraction function of the site harvesters
\* returns a sorted, duplicate-free list of lower-cased addresses, none of which
\* contains one of the markers example.com, yourcompany.com, test.com,
\* domain.com, email.com, and a match is discarded only when its domain portion
\* contains such a marker.
C10_ExtractionFiltered ==
    xpc = "done" =>
        \A h \in 1..2 :
            LET out == found[h]
                matches == { Lower(m) : m \in Range(FindAll(text, h = 1)) }
            IN /\ IsSortedList(out)
               /\ NoDuplicates(out)
               /\ \A i \in 1..Len(out) :
                     /\ out[i] = Lower(out[i])
                     /\ ~HasBadHint(out[i], BAD_EMAIL_HINTS_VERIFY)
               /\ \A m \in matches :
                     m \notin Range(out) =>
                         HasBadHint(DomainPortion(m), BAD_EMAIL_HINTS_VERIFY)

----------------------------------------------------------------------------
(* Properties of the guess scripts *)

\* C3: a domain that is checked more than once during one run is looked up
\* once: no domain string is handed twice to the DNS MX lookup of a run.
C3_LookupOncePerDomain == NoDuplicates(mxLookups)

\* the position in the log of the row of the first candidate that has an MX
FirstVerified(log) ==
    LET hits == { k \in 1..Len(log) : log[k].mx }
    IN IF hits = {} THEN 0 ELSE CHOOSE k \in hits : \A j \in hits : k <= j

\* C4: in the candidate loop of a company the first candidate, in generator
\* order, whose MX lookup is non-empty is the selected domain, and no candidate
\* after it is probed: no later MX lookup and at most one HTTP probe per company.
C4_FirstVerifiedSelected ==
    LET f == FirstVerified(rowLog)
    IN /\ f > 0 => Len(rowLog) = f
       /\ rowHttp <= 1
       /\ (script = "v2" /\ best # NoBest) => best.guessed_domain = rowLog[f].dom

\* C8: when the token list of a company is empty, or is one token of the
\* generic set, domain_core_candidates returns nothing and the driver makes no
\* DNS or HTTP call for that company; for every other token list the result is
\* empty only when no core has an accepted length, and the company is looked up
\* otherwise. (gnorm is the normalized name of the company in its candidate
\* loop, and of the company just left when the driver stands between two; the
\* generator's result is compared where gnorm has just been set, ck <= 1.)
C8_FailsClosed ==
    script = "v2" =>
        LET tokens == Split(gnorm)
            closed == \/ tokens = <<>>
                      \/ Len(tokens) = 1 /\ tokens[1] \in GENERIC_TOKENS
            fits == \E form \in 1..NumCoreForms :
                       /\ form = 3 => Len(tokens) >= 2
                       /\ Len(CoreOfForm(tokens, form)) >= 4
                       /\ Len(CoreOfForm(tokens, form)) <=
                              (CASE form = 1 -> 24 [] form = 2 -> 28 [] OTHER -> 18)
            lookedUp == \E k \in 1..Len(mxLookups) : \E form \in 1..NumCoreForms :
                           BuiltFrom(mxLookups[k], CoreOfForm(tokens, form))
        IN /\ ck <= 1 =>
                 \A o \in HashOrders :
                     (domain_core_candidates(gnorm, o) = <<>>) <=> (closed \/ ~fits)
           /\ dpc \in {"mx", "site"} => ~closed /\ fits /\ cands # <<>>
           /\ (dpc \in {"row", "done"} /\ gi > 1) =>
                 /\ closed => ~lookedUp /\ rowHttp = 0
                 /\ (~closed /\ fits) => lookedUp

\* the first company has the single generic token "steel" and was passed over
\* without a lookup; the second has a generic second token and was looked up
C8_Witness ==
    /\ script = "v2" /\ dpc = "done" /\ Len(rows) = 2
    /\ Split(normalize_name(DisplayName(rows[1]))) = <<S_steel>>
    /\ Len(Split(normalize_name(DisplayName(rows[2])))) = 2
    /\ Split(normalize_name(DisplayName(rows[2])))[2] \in GENERIC_TOKENS
    /\ mxLookups # <<>>
    /\ \A k \in 1..Len(mxLookups) : ~StartsWith(mxLookups[k], S_steel)

\* the candidates of the current row whose lookup gave MX hosts
WithMx == {k \in 1..Len(rowLog) : rowLog[k].mx}

\* C19: when the second guess script leaves a company, the company gets an
\* output row exactly if one of its candidates had MX hosts; the kept domain
\* is one with MX hosts, the site was probed for those candidates only, and a
\* kept domain whose site did not respond has site_ok = no and a confidence
\* 30 lower than with a responding site
C19_MxGatesSiteDoesNot ==
    [][(script = "v2" /\ gi' = gi + 1) =>
          /\ (Len(results') = Len(results) + 1) <=> (WithMx # {})
          /\ (Len(results') = Len(results)) <=> (WithMx = {})
          /\ rowHttp = Cardinality(WithMx)
          /\ WithMx # {} =>
                LET row == results'[Len(results')]
                IN /\ \E k \in WithMx : rowLog[k].dom = row.guessed_domain
                   /\ row.mx # <<>>
                   /\ row.site_ok = "no" =>
                         row.confidence + 30 =
                            confidence_score(row.guessed_domain, gnorm, row.mx, TRUE)]_vars

\* a company is kept with a domain whose site did not respond, after a
\* candidate without MX hosts was passed over
C19_Witness ==
    /\ script = "v2" /\ dpc = "mx" /\ ck > Len(cands)
    /\ best # NoBest /\ best.site_ok = "no"
    /\ \E k \in 1..Len(rowLog) : ~rowLog[k].mx

----------------------------------------------------------------------------
(* Scoring and selection of harvested addresses (search script) *)

LOCALPART_PRIORITY == <<
    <<"c","o","n","t","a","c","t">>,
    <<"h","e","l","l","o">>,
    <<"i","n","f","o">>,
    <<"s","u","p","p","o","r","t">>,
    <<"s","a","l","e","s">>,
    <<"a","d","m","i","n">>,
    <<"e","n","q","u","i","r","i","e","s">>,
    <<"e","n","q","u","i","r","y">>,
    <<"p","r","i","v","a","c","y">> >>

\* the set "free" of score_email
FREE_PROVIDERS == {
    <<"g","m","a","i","l",".","c","o","m">>,
    <<"g","o","o","g","l","e","m","a","i","l",".","c","o","m">>,
    <<"o","u","t","l","o","o","k",".","c","o","m">>,
    <<"h","o","t","m","a","i","l",".","c","o","m">>,
    <<"l","i","v","e",".","c","o","m">>,
    <<"y","a","h","o","o",".","c","o","m">>,
    <<"y","a","h","o","o",".","c","o","m",".","a","u">>,
    <<"i","c","l","o","u","d",".","c","o","m">>,
    <<"a","o","l",".","c","o","m">>,
    <<"p","r","o","t","o","n",".","m","e">>,
    <<"p","r","o","t","o","n","m","a","i","l",".","c","o","m">> }

\* the reason tags of score_email
REASON == [free_provider |-> <<"f","r","e","e","_","p","r","o","v","i","d","e","r">>,
           domain_match |-> <<"d","o","m","a","i","n","_","m","a","t","c","h">>,
           subdomain_match |-> <<"s","u","b","d","o","m","a","i","n","_","m","a","t","c","h">>,
           domain_mismatch |-> <<"d","o","m","a","i","n","_","m","i","s","m","a","t","c","h">>,
           lp |-> <<"l","p","=">>,
           generic |-> <<"g","e","n","e","r","i","c">>]

\* the prefixes exp.replace(..., "") removes
SCHEMES == [http |-> <<"h","t","t","p",":","/","/">>, https |-> <<"h","t","t","p","s",":","/","/">>]

\* s.split(c, 1)
SplitOnce(s, c) ==
    IF c \in Range(s)
    THEN LET i == CHOOSE k \in 1..Len(s) : s[k] = c /\ \A m \in 1..(k - 1) : s[m] # c
         IN <<SubSeq(s, 1, i - 1), SubSeq(s, i + 1, Len(s))>>
    ELSE <<s>>

RECURSIVE Remove(_, _)
\* s.replace(sub, ""): the non-overlapping occurrences removed, left to right
Remove(s, sub) ==
    IF s = <<>> THEN <<>>
    ELSE IF StartsWith(s, sub) THEN Remove(SubSeq(s, Len(sub) + 1, Len(s)), sub)
    ELSE <<Head(s)>> \o Remove(Tail(s), sub)

RECURSIVE LStripChars(_, _)
\* s.lstrip(chars): leading characters that belong to chars removed
LStripChars(s, chars) ==
    IF s # <<>> /\ Head(s) \in chars THEN LStripChars(Tail(s), chars) ELSE s

normalize_email(email) == Lower(Strip(email))

domain_from_email(email) ==
    LET parts == SplitOnce(email, "@")
    IN IF Len(parts) = 2 THEN Strip(Lower(parts[2])) ELSE <<>>

\* exp of score_email, from a non-empty expected_domain
ExpectedHost(expected_domain) ==
    LStripChars(SplitOnce(Remove(Remove(Strip(Lower(expected_domain)), SCHEMES.http), SCHEMES.https),
                          "/")[1],
                {"w", "."})

Max(a, b) == IF a >= b THEN a ELSE b

\* bonus of the local part at (1-based) position i of LOCALPART_PRIORITY
LocalpartBonus(i) == Max(0, 25 - (i - 1) * 3)

\* the score and the reason tags of score_email, before clamping and joining
ScoreParts(email, expected_domain) ==
    LET e == normalize_email(email)
        dom == domain_from_email(e)
        localpart == SplitOnce(e, "@")[1]
        isFree == dom \in FREE_PROVIDERS
        exp == ExpectedHost(expected_domain)
        match == IF expected_domain = <<>> THEN "none"
                 ELSE IF dom = exp THEN "domain_match"
                 ELSE IF EndsWith(dom, <<".">> \o exp) THEN "subdomain_match"
                 ELSE "domain_mismatch"
        ranked == \E i \in 1..Len(LOCALPART_PRIORITY) : localpart = LOCALPART_PRIORITY[i]
        rank == CHOOSE i \in 1..Len(LOCALPART_PRIORITY) :
                    /\ localpart = LOCALPART_PRIORITY[i]
                    /\ \A m \in 1..(i - 1) : localpart # LOCALPART_PRIORITY[m]
    IN [score |-> 50
                  + (IF isFree THEN -35 ELSE 0)
                  + (CASE match = "domain_match" -> 35
                       [] match = "subdomain_match" -> 20
                       [] match = "domain_mismatch" -> -10
                       [] OTHER -> 0)
                  + (IF ranked THEN LocalpartBonus(rank) ELSE 0),
        reason |-> (IF isFree THEN <<REASON.free_provider>> ELSE <<>>)
                   \o (CASE match = "domain_match" -> <<REASON.domain_match>>
                          [] match = "subdomain_match" -> <<REASON.subdomain_match>>
                          [] match = "domain_mismatch" -> <<REASON.domain_mismatch>>
                          [] OTHER -> <<>>)
                   \o (IF ranked THEN <<REASON.lp \o LOCALPART_PRIORITY[rank]>> ELSE <<>>)]

\* score = max(0, min(100, score))
Clamp(score) == Max(0, Min(100, score))

score_email(email, expected_domain) ==
    LET parts == ScoreParts(email, expected_domain)
    IN [score |-> Clamp(parts.score),
        reason |-> IF parts.reason = <<>> THEN REASON.generic
                   ELSE JoinWith(<<",">>, parts.reason)]

\* "(best is None) or (s > best.confidence)" of pick_best_email
ReplacesOnTie(b, s) == b = NoBest \/ s >= b.confidence

Replaces(b, s) == b = NoBest \/ s > b.confidence

RECURSIVE PickFrom(_, _, _, _, _)
\* the loop of pick_best_email over the addresses in iteration order, from the k-th on
PickFrom(seq, k, b, expected_domain, source_url) ==
    IF k > Len(seq) THEN b
    ELSE LET r == score_email(seq[k], expected_domain)
         IN PickFrom(seq, k + 1,
                     IF Replaces(b, r.score)
                     THEN [email |-> normalize_email(seq[k]), source_url |-> source_url,
                           confidence |-> r.score, reason |-> r.reason]
                     ELSE b,
                     expected_domain, source_url)

\* emails is the set in the order in which "for em in emails" yields it
pick_best_email(seq, expected_domain, source_url) ==
    PickFrom(seq, 1, NoBest, expected_domain, source_url)

----------------------------------------------------------------------------
(* Scoring runs: score_email and pick_best_email applied to bounded inputs *)

MaxEmails == 3

ScoreDomains == {<<"a","c","m","e",".","a","u">>, <<"w","e","b",".","c","o","m">>, <<"g","m","a","i","l",".","c","o","m">>}

\* the ways a row can spell the domain d in its expected-domain field
ExpectedForms(d) ==
    {d, SCHEMES.http \o d, SCHEMES.https \o d, <<"w","w","w",".">> \o d,
     d \o <<"/","c","o","n","t","a","c","t">>}

ExpectedDomains == {<<>>} \cup UNION {ExpectedForms(d) : d \in ScoreDomains}

ScoreEmails == {
    <<"c","o","n","t","a","c","t","@","a","c","m","e",".","a","u">>,
    <<"i","n","f","o","@","a","c","m","e",".","a","u">>,
    <<"s","a","l","e","s","@","a","c","m","e",".","a","u">>,
    <<"b","o","b","@","a","c","m","e",".","a","u">>,
    <<"i","n","f","o","@","w","e","b",".","c","o","m">>,
    <<"i","n","f","o","@","g","m","a","i","l",".","c","o","m">>,
    <<"i","n","f","o","@","m",".","a","c","m","e",".","a","u">> }

\* the orders in which the iteration of a set of at most n of the addresses can yield it
IterationOrders(pool, n) ==
    {seq \in UNION {[1..k -> pool] : k \in 0..n} : NoDuplicates(seq)}

ScoreInit ==
    /\ spc = "start"
    /\ expected \in ExpectedDomains
    /\ emailSeq \in IterationOrders(ScoreEmails, MaxEmails)
    /\ scored = <<>>
    /\ picked = NoBest
    /\ hashOrder = <<1, 2, 3>>
    /\ GenIdle
    /\ ExIdle
    /\ GuessIdle
    /\ BatchIdle
    /\ HarvestIdle

ScoreAll ==
    /\ spc = "start"
    /\ scored' = [k \in 1..Len(emailSeq) |-> score_email(emailSeq[k], expected)]
    /\ spc' = "scored"
    /\ UNCHANGED <<expected, emailSeq, picked>>
    /\ UNCHANGED <<genVars, exVars, guessVars, batchVars, harvestVars>>

ScorePick ==
    /\ spc = "scored"
    /\ picked' = pick_best_email(emailSeq, expected, 0)
    /\ spc' = "done"
    /\ UNCHANGED <<expected, emailSeq, scored>>
    /\ UNCHANGED <<genVars, exVars, guessVars, batchVars, harvestVars>>

ScoreNext == ScoreAll \/ ScorePick

SpecScore == ScoreInit /\ [][ScoreNext]_vars

----------------------------------------------------------------------------
(* The batch drivers: main of sysiphe_find_sites_and_emails_v2.py,           *)
(* of sysiphe_enrich_contacts_v1.py and of sysiphe_search_email.py.          *)
(* A request either raises (timeout, connection error, HTTP error status)    *)
(* or returns; what it returns is reduced to what the driver branches on.    *)
(* Database statements are taken to succeed.                                 *)

MaxBatch == 2
MaxUrls == 2
MaxLinks == 2

\* candidate_pages of find_sites, pages of try_extract_email_from_site
NumSitePages == 6
NumEnrichPages == 5

\* if best and best.confidence >= 85: break
StopConfidence == 85

\* a domain returned by a search
S_dom == <<"a","c","m","e",".","a","u">>

\* the outcomes of a search request: it raises, finds nothing, finds a domain
SearchOutcomes == {"raise", "empty", "dom"}

\* the outcomes of a page request: it raises, or the page has an e-mail or none
PageOutcomes == {"raise", "no_email", "email"}

\* bodies of the pages a result link of the search driver can lead to
SearchPages == {
    <<"h","e","l","l","o">>,
    <<"i","n","f","o","@","e","x","a","m","p","l","e",".","c","o","m">>,
    <<"I","n","f","o","@","a","c","m","e",".","a","u">>,
    <<"b","o","b","@","g","m","a","i","l",".","c","o","m">>,
    <<"i","n","f","o","@","a","c","m","e",".","a","u"," ",
      "c","o","n","t","a","c","t","@","a","c","m","e",".","a","u">> }

\* what line 261 can assign to emails: extract_emails_from_text of a fetched
\* body; the empty set also stands for a link that gave no body
FetchedEmailSets == {{}} \cup {extract_emails_from_text(h) : h \in SearchPages}

\* the orders in which the iteration of the set S can yield its elements
Orderings(S) == {seq \in [1..Cardinality(S) -> S] : NoDuplicates(seq)}

\* the values of the expected-domain field of a row of the search driver
SearchExpected == {<<>>, S_dom}

\* the rows each driver reads: company_name (find_sites), company_name with
\* optional abn and state (enrich), legal_name possibly empty and the
\* expected-domain field (search)
BatchRows(s) ==
    CASE s = "find_sites" -> { [named |-> TRUE, abn |-> FALSE, state |-> FALSE] }
      [] s = "enrich" -> { [named |-> TRUE, abn |-> a, state |-> st] : a, st \in BOOLEAN }
      [] OTHER -> { [named |-> TRUE, abn |-> FALSE, state |-> FALSE, expected |-> x] :
                        x \in SearchExpected }
                  \cup { [named |-> FALSE, abn |-> FALSE, state |-> FALSE,
                          expected |-> <<>>] }

\* queries of the enrich driver: one, plus one with the abn, plus one with the state
NumQueries(r) == 1 + (IF r.abn THEN 1 ELSE 0) + (IF r.state THEN 1 ELSE 0)

BatchInit ==
    /\ bscript \in {"find_sites", "enrich", "search"}
    /\ \E n \in 1..MaxBatch : brows \in [1..n -> BatchRows(bscript)]
    /\ links \in IF bscript = "search" THEN 1..MaxLinks ELSE {0}
    /\ bi = 1
    /\ bpc = "row"
    /\ bq = 1
    /\ bdomain = <<>>
    /\ method = ""
    /\ urls = 0
    /\ bpage = 0
    /\ fetched = 0
    /\ anyEmail = FALSE
    /\ bbest = NoBest
    /\ notes = [i \in 1..Len(brows) |-> <<>>]
    /\ contacts = [i \in 1..Len(brows) |-> 0]
    /\ bresults = <<>>
    /\ counters = CASE bscript = "find_sites" -> [ok_site |-> 0, ok_email |-> 0, fail |-> 0]
                    [] bscript = "enrich" -> [ok |-> 0, fail |-> 0]
                    [] OTHER -> [tested |-> 0, found |-> 0]
    /\ rowSleeps = 0
    /\ rowFetches = 0
    /\ rowPages = <<>>
    /\ sinceSleep = 0
    /\ searchRaised = [i \in 1..Len(brows) |-> FALSE]
    /\ hashOrder = <<>>
    /\ GenIdle
    /\ ExIdle
    /\ GuessIdle
    /\ MoreIdle

\* cur.execute(SQL_UPDATE_SITE / SQL_UPDATE_OK / SQL_UPDATE_FAIL, (..., note, id))
AppendNote(i, note) == [notes EXCEPT ![i] = Append(@, note)]

\* the loop goes to the next row: the locals of the row are dropped
NextRow ==
    /\ bi' = bi + 1
    /\ bpc' = "row"
    /\ bq' = 1
    /\ bdomain' = <<>>
    /\ method' = ""
    /\ urls' = 0
    /\ bpage' = 0
    /\ fetched' = 0
    /\ anyEmail' = FALSE
    /\ bbest' = NoBest

\* the first request of a row opens its counts of sleeps and page requests
SleepsBefore == IF bpc = "row" /\ bq = 1 THEN 0 ELSE rowSleeps

\* a search request of row i ended in an exception
Raised(i, out) == [searchRaised EXCEPT ![i] = @ \/ out = "raise"]

(* main of sysiphe_find_sites_and_emails_v2.py *)

\* lines 176-183 and, when a domain is found, 193-198: google_search_first_domain
\* has no handler around its request and main calls it outside any try
FGoogle ==
    /\ bscript = "find_sites" /\ bpc = "row" /\ bi <= Len(brows)
    /\ \E out \in SearchOutcomes :
          /\ searchRaised' = Raised(bi, out)
          /\ CASE out = "raise" ->
                  /\ bpc' = "crashed"
                  /\ UNCHANGED <<bdomain, method, notes, counters, bpage>>
            [] out = "empty" ->
                  /\ bpc' = "ddg"
                  /\ method' = "ddg_fallback"
                  /\ UNCHANGED <<bdomain, notes, counters, bpage>>
            [] OTHER ->
                  /\ bpc' = "pages"
                  /\ bdomain' = S_dom
                  /\ method' = "google"
                  /\ notes' = AppendNote(bi, "[site] domain")
                  /\ counters' = [counters EXCEPT !.ok_site = @ + 1]
                  /\ bpage' = 1
    /\ rowSleeps' = 0
    /\ rowFetches' = 0
    /\ sinceSleep' = sinceSleep + 1
    /\ UNCHANGED <<bscript, brows, links, bi, bq, urls, fetched, anyEmail, bbest,
                   contacts, bresults, rowPages>>
    /\ UNCHANGED <<genVars, exVars, guessVars, moreVars>>

\* lines 181-198: ddg_search_first_domain returns "" on any exception
FDdg ==
    /\ bscript = "find_sites" /\ bpc = "ddg"
    /\ \E out \in SearchOutcomes :
          /\ searchRaised' = Raised(bi, out)
          /\ IF out \in {"empty", "raise"}
             THEN /\ notes' = AppendNote(bi, "[site] no_domain_found")
                  /\ counters' = [counters EXCEPT !.fail = @ + 1]
                  /\ rowSleeps' = rowSleeps + 1
                  /\ sinceSleep' = 0
                  /\ NextRow
             ELSE /\ bdomain' = S_dom
                  /\ notes' = AppendNote(bi, "[site] domain")
                  /\ counters' = [counters EXCEPT !.ok_site = @ + 1]
                  /\ bpc' = "pages"
                  /\ bpage' = 1
                  /\ sinceSleep' = sinceSleep + 1
                  /\ UNCHANGED <<bi, bq, method, urls, fetched, anyEmail, bbest,
                                 rowSleeps>>
    /\ UNCHANGED <<bscript, brows, links, contacts, bresults, rowFetches, rowPages>>
    /\ UNCHANGED <<genVars, exVars, guessVars, moreVars>>

\* lines 210-216: every candidate page is requested, an exception is passed over
FPage ==
    /\ bscript = "find_sites" /\ bpc = "pages" /\ bpage <= NumSitePages
    /\ \E out \in PageOutcomes : anyEmail' = (anyEmail \/ out = "email")
    /\ rowFetches' = rowFetches + 1
    /\ sinceSleep' = sinceSleep + 1
    /\ bpage' = bpage + 1
    /\ UNCHANGED <<bscript, brows, links, bi, bpc, bq, bdomain, method, urls, fetched,
                   bbest, notes, contacts, bresults, counters, rowSleeps, rowPages,
                   searchRaised>>
    /\ UNCHANGED <<genVars, exVars, guessVars, moreVars>>

\* lines 218-227: the contact row, or a second note on the record; then the sleep
FEndRow ==
    /\ bscript = "find_sites" /\ bpc = "pages" /\ bpage > NumSitePages
    /\ IF anyEmail
       THEN /\ contacts' = [contacts EXCEPT ![bi] = @ + 1]
            /\ counters' = [counters EXCEPT !.ok_email = @ + 1]
            /\ UNCHANGED notes
       ELSE /\ notes' = AppendNote(bi, "[email] no_email_found_on_site")
            /\ UNCHANGED <<contacts, counters>>
    /\ rowSleeps' = rowSleeps + 1
    /\ sinceSleep' = 0
    /\ NextRow
    /\ UNCHANGED <<bscript, brows, links, bresults, rowFetches, rowPages, searchRaised>>
    /\ UNCHANGED <<genVars, exVars, guessVars, moreVars>>

(* main of sysiphe_enrich_contacts_v1.py *)

\* lines 194-202: one query; a raised request is passed over, a domain ends the loop
EQuery ==
    /\ bscript = "enrich" /\ bpc = "row" /\ bi <= Len(brows)
    /\ bq <= NumQueries(brows[bi])
    /\ \E out \in SearchOutcomes :
          /\ searchRaised' = Raised(bi, out)
          /\ IF out = "dom"
             THEN /\ bdomain' = S_dom
                  /\ bpc' = "pages"
                  /\ bpage' = 1
                  /\ rowSleeps' = SleepsBefore
                  /\ sinceSleep' = sinceSleep + 1
                  /\ UNCHANGED bq
             ELSE /\ bq' = bq + 1
                  /\ rowSleeps' = SleepsBefore + 1
                  /\ sinceSleep' = 0
                  /\ UNCHANGED <<bdomain, bpc, bpage>>
    /\ rowFetches' = IF bq = 1 THEN 0 ELSE rowFetches
    /\ UNCHANGED <<bscript, brows, links, bi, method, urls, fetched, anyEmail, bbest,
                   notes, contacts, bresults, counters, rowPages>>
    /\ UNCHANGED <<genVars, exVars, guessVars, moreVars>>

\* lines 204-210: no query gave a domain: the note, and on to the next row
ENoDomain ==
    /\ bscript = "enrich" /\ bpc = "row" /\ bi <= Len(brows)
    /\ bq > NumQueries(brows[bi])
    /\ notes' = AppendNote(bi, "Sysiphe_enrich=no_domain_found")
    /\ counters' = [counters EXCEPT !.fail = @ + 1]
    /\ NextRow
    /\ UNCHANGED <<bscript, brows, links, contacts, bresults, rowSleeps, rowFetches,
                   rowPages, sinceSleep, searchRaised>>
    /\ UNCHANGED <<genVars, exVars, guessVars, moreVars>>

\* try_extract_email_from_site, lines 142-149: a page that is fetched is
\* followed by a sleep, a page whose request raises is not
EPage ==
    /\ bscript = "enrich" /\ bpc = "pages" /\ bpage <= NumEnrichPages
    /\ \E out \in PageOutcomes :
          /\ anyEmail' = (anyEmail \/ out = "email")
          /\ rowSleeps' = IF out = "raise" THEN rowSleeps ELSE rowSleeps + 1
          /\ sinceSleep' = IF out = "raise" THEN sinceSleep + 1 ELSE 0
    /\ rowFetches' = rowFetches + 1
    /\ bpage' = bpage + 1
    /\ UNCHANGED <<bscript, brows, links, bi, bpc, bq, bdomain, method, urls, fetched,
                   bbest, notes, contacts, bresults, counters, rowPages, searchRaised>>
    /\ UNCHANGED <<genVars, exVars, guessVars, moreVars>>

\* lines 212-232: SQL_UPDATE_OK or SQL_UPDATE_FAIL, each with its note; the sleep
EEndRow ==
    /\ bscript = "enrich" /\ bpc = "pages" /\ bpage > NumEnrichPages
    /\ IF anyEmail
       THEN /\ contacts' = [contacts EXCEPT ![bi] = @ + 1]
            /\ notes' = AppendNote(bi, "Sysiphe_enrich=ok")
            /\ counters' = [counters EXCEPT !.ok = @ + 1]
       ELSE /\ notes' = AppendNote(bi, "Sysiphe_enrich=no_email")
            /\ counters' = [counters EXCEPT !.fail = @ + 1]
            /\ UNCHANGED contacts
    /\ rowSleeps' = rowSleeps + 1
    /\ sinceSleep' = 0
    /\ NextRow
    /\ UNCHANGED <<bscript, brows, links, bresults, rowFetches, rowPages, searchRaised>>
    /\ UNCHANGED <<genVars, exVars, guessVars, moreVars>>

(* main of sysiphe_search_email.py *)

\* an output row; reason "found" stands for the reason string of the best
\* candidate, which the row also carries as why
\* faulty variant: the confidence of the best candidate is not copied
OutputRowZeroConfidence(i, reason, b) ==
    [row |-> i, reason |-> reason,
     email |-> IF b = NoBest THEN <<>> ELSE b.email,
     confidence |-> 0,
     source_url |-> IF b = NoBest THEN 0 ELSE b.source_url,
     why |-> IF b = NoBest THEN <<>> ELSE b.reason]

OutputRow(i, reason, b) ==
    [row |-> i, reason |-> reason,
     email |-> IF b = NoBest THEN <<>> ELSE b.email,
     confidence |-> IF b = NoBest THEN 0 ELSE b.confidence,
     source_url |-> IF b = NoBest THEN 0 ELSE b.source_url,
     why |-> IF b = NoBest THEN <<>> ELSE b.reason]

\* lines 205-228: a row without a name gives its output row at once
SMissingName ==
    /\ bscript = "search" /\ bpc = "row" /\ bi <= Len(brows)
    /\ ~brows[bi].named
    /\ counters' = [counters EXCEPT !.tested = @ + 1]
    /\ bresults' = Append(bresults, OutputRow(bi, "missing_legal_name", NoBest))
    /\ rowSleeps' = 0
    /\ rowFetches' = 0
    /\ rowPages' = <<>>
    /\ NextRow
    /\ UNCHANGED <<bscript, brows, links, notes, contacts, sinceSleep, searchRaised>>
    /\ UNCHANGED <<genVars, exVars, guessVars, moreVars>>

\* lines 230-250: search_serpapi inside try; on an exception the search_error
\* row (with the name of the exception's type), the sleep, and the next row
SSearch ==
    /\ bscript = "search" /\ bpc = "row" /\ bi <= Len(brows)
    /\ brows[bi].named
    /\ counters' = [counters EXCEPT !.tested = @ + 1]
    /\ rowFetches' = 0
    /\ rowPages' = <<>>
    /\ \/ /\ bresults' = Append(bresults, OutputRow(bi, "search_error", NoBest))
          /\ searchRaised' = Raised(bi, "raise")
          /\ rowSleeps' = 1
          /\ sinceSleep' = 0
          /\ NextRow
       \/ /\ \E n \in 0..MaxUrls : urls' = n
          /\ bpc' = "pages"
          /\ bpage' = 1
          /\ fetched' = 0
          /\ bbest' = NoBest
          /\ rowSleeps' = 0
          /\ sinceSleep' = sinceSleep + 1
          /\ UNCHANGED <<bi, bq, bdomain, method, anyEmail, bresults, searchRaised>>
    /\ UNCHANGED <<bscript, brows, links, notes, contacts>>
    /\ UNCHANGED <<genVars, exVars, guessVars, moreVars>>

\* "if fetched >= args.links: break"
LinkCapReached(n, cap) == n >= cap

\* "candidate and (best is None or candidate.confidence > best.confidence)"
Combines(b, candidate) ==
    candidate # NoBest /\ (b = NoBest \/ candidate.confidence > b.confidence)

\* "if best and best.confidence >= 85: break"
StopsAtNever(b) == FALSE

StopsAt(b) == b # NoBest /\ b.confidence >= StopConfidence

\* lines 261-265 for the link at position url of a row whose expected domain
\* is expected: the addresses of the body in the order the iteration of the
\* set yields them, their scores, and what pick_best_email returns
PageResults ==
    { [expected |-> x, url |-> u, seen |-> seen,
       scores |-> [k \in 1..Len(seen) |-> score_email(seen[k], x).score],
       candidate |-> pick_best_email(seen, x, u)] :
        x \in SearchExpected, u \in 1..MaxUrls,
        seen \in UNION {Orderings(es) : es \in FetchedEmailSets} }

\* lines 252-271: one link: the cap, the fetch, the candidate, the early stop;
\* a link without a body or without an address goes straight to the next link
SPage ==
    /\ bscript = "search" /\ bpc = "pages"
    /\ bpage <= urls /\ ~LinkCapReached(fetched, links)
    /\ fetched' = fetched + 1
    /\ rowFetches' = rowFetches + 1
    /\ sinceSleep' = sinceSleep + 1
    /\ \E p \in PageResults :
          /\ p.expected = brows[bi].expected /\ p.url = bpage
          /\ LET b == IF Combines(bbest, p.candidate) THEN p.candidate ELSE bbest
             IN /\ bbest' = b
                /\ rowPages' = Append(rowPages, [seen |-> p.seen, scores |-> p.scores,
                                                 candidate |-> p.candidate])
                /\ IF p.seen # <<>> /\ StopsAt(b)
                   THEN bpc' = "emit" /\ UNCHANGED bpage
                   ELSE bpage' = bpage + 1 /\ UNCHANGED bpc
    /\ UNCHANGED <<bscript, brows, links, bi, bq, bdomain, method, urls, anyEmail,
                   notes, contacts, bresults, counters, rowSleeps, searchRaised>>
    /\ UNCHANGED <<genVars, exVars, guessVars, moreVars>>

\* lines 273-295: the output row of the company, then the sleep
SEndRow ==
    /\ bscript = "search"
    /\ \/ bpc = "emit"
       \/ bpc = "pages" /\ (bpage > urls \/ LinkCapReached(fetched, links))
    /\ IF bbest # NoBest
       THEN /\ counters' = [counters EXCEPT !.found = @ + 1]
            /\ bresults' = Append(bresults, OutputRow(bi, "found", bbest))
       ELSE /\ bresults' = Append(bresults, OutputRow(bi, "not_found", NoBest))
            /\ UNCHANGED counters
    /\ rowSleeps' = rowSleeps + 1
    /\ sinceSleep' = 0
    /\ NextRow
    /\ UNCHANGED <<bscript, brows, links, notes, contacts, rowFetches, rowPages,
                   searchRaised>>
    /\ UNCHANGED <<genVars, exVars, guessVars, moreVars>>

\* the rows are exhausted: conn.close() / write_output, and the final report
BatchDone ==
    /\ bpc = "row" /\ bi > Len(brows)
    /\ bpc' = "done"
    /\ UNCHANGED <<bscript, brows, links, bi, bq, bdomain, method, urls, bpage, fetched,
                   anyEmail, bbest, notes, contacts, bresults, counters, rowSleeps,
                   rowFetches, rowPages, sinceSleep, searchRaised>>
    /\ UNCHANGED <<genVars, exVars, guessVars, moreVars>>

BatchNext ==
    \/ FGoogle \/ FDdg \/ FPage \/ FEndRow
    \/ EQuery \/ ENoDomain \/ EPage \/ EEndRow
    \/ SMissingName \/ SSearch \/ SPage \/ SEndRow
    \/ BatchDone

SpecBatch == BatchInit /\ [][BatchNext]_vars

----------------------------------------------------------------------------
(* Site harvests: verify_email_on_site of sysiphe_guess_verify_email.py,     *)
(* try_extract_email_from_site of sysiphe_enrich_contacts_v1.py and the      *)
(* page loop of main of sysiphe_find_sites_and_emails_v2.py                  *)

\* ("",) + CONTACT_PATHS
NumVerifyPages == 7

\* preferred of pick_best_email (verify script)
PREFERRED_VERIFY == <<
    <<"c","o","n","t","a","c","t","@">>,
    <<"i","n","f","o","@">>,
    <<"h","e","l","l","o","@">>,
    <<"e","n","q","u","i","r","i","e","s","@">>,
    <<"e","n","q","u","i","r","y","@">>,
    <<"s","a","l","e","s","@">>,
    <<"s","u","p","p","o","r","t","@">>,
    <<"a","d","m","i","n","@">> >>

\* preferred_prefixes of pick_best_email (find_sites)
PREFERRED_FIND_SITES == <<
    <<"i","n","f","o","@">>,
    <<"c","o","n","t","a","c","t","@">>,
    <<"h","e","l","l","o","@">>,
    <<"s","a","l","e","s","@">>,
    <<"s","u","p","p","o","r","t","@">>,
    <<"a","d","m","i","n","@">>,
    <<"e","n","q","u","i","r","i","e","s","@">>,
    <<"e","n","q","u","i","r","y","@">>,
    <<"o","f","f","i","c","e","@">>,
    <<"t","e","a","m","@">> >>

\* priority of pick_best_email (enrich)
PREFERRED_ENRICH == <<
    <<"i","n","f","o","@">>,
    <<"c","o","n","t","a","c","t","@">>,
    <<"h","e","l","l","o","@">>,
    <<"s","u","p","p","o","r","t","@">>,
    <<"a","d","m","i","n","@">> >>

\* pick_best_email of the three scripts: the first address, in list order, of
\* the first preferred prefix any address starts with, else the first address;
\* <<>> stands for None / ""
PickPreferred(list, preferred) ==
    IF list = <<>> THEN <<>>
    ELSE LET hit(p) == {k \in 1..Len(list) : StartsWith(list[k], preferred[p])}
             ps == {p \in 1..Len(preferred) : hit(p) # {}}
         IN IF ps = {} THEN list[1]
            ELSE LET p == CHOOSE q \in ps : \A r \in ps : q <= r
                 IN list[CHOOSE k \in hit(p) : \A m \in hit(p) : k <= m]

PreferredOf(s) ==
    CASE s = "verify" -> PREFERRED_VERIFY
      [] s = "find_sites" -> PREFERRED_FIND_SITES
      [] OTHER -> PREFERRED_ENRICH

NumPagesOf(s) ==
    CASE s = "verify" -> NumVerifyPages
      [] s = "find_sites" -> NumSitePages
      [] OTHER -> NumEnrichPages

\* bodies of the pages of a site
HarvestBodies == {
    <<"h","e","l","l","o">>,
    <<"b","o","b","@","a","c","m","e",".","a","u">>,
    <<"C","o","n","t","a","c","t","@","a","c","m","e",".","a","u"," ","x","@","e","x","a","m","p","l","e",".","c","o","m">> }

\* what the request of one page gives each script: no body (exception, error
\* status), or the list its extraction function returns for the body
HarvestOutcomes ==
    [s \in {"verify", "find_sites", "enrich"} |->
        { [ok |-> FALSE, emails |-> <<>>] }
        \cup { [ok |-> TRUE,
                emails |-> CASE s = "verify" -> extract_emails_verify(h)
                             [] s = "find_sites" -> extract_emails(h)
                             [] OTHER -> extract_emails_from_html(h)] :
                   h \in HarvestBodies }]

HarvestInit ==
    /\ hscript \in {"verify", "find_sites", "enrich"}
    /\ hpc = "pages"
    /\ hk = 1
    /\ hlog = <<>>
    /\ hall = {}
    /\ hresult = <<>>
    /\ hashOrder = <<1, 2, 3>>
    /\ GenIdle
    /\ ExIdle
    /\ GuessIdle
    /\ BatchIdle
    /\ ScoreIdle

\* verify_email_on_site, lines 53-61: one page; the first page that gives an
\* address ends the function
VFetch ==
    /\ hscript = "verify" /\ hpc = "pages" /\ hk <= NumVerifyPages
    /\ \E out \in HarvestOutcomes["verify"] :
          LET b == PickPreferred(out.emails, PREFERRED_VERIFY)
          IN /\ hlog' = Append(hlog, out)
             /\ IF out.ok /\ b # <<>>
                THEN hresult' = b /\ hpc' = "done" /\ UNCHANGED hk
                ELSE hk' = hk + 1 /\ UNCHANGED <<hresult, hpc>>
    /\ UNCHANGED <<hscript, hall>>
    /\ UNCHANGED <<genVars, exVars, guessVars, batchVars, scoreVars>>

\* verify_email_on_site, line 62: return None, None
VEnd ==
    /\ hscript = "verify" /\ hpc = "pages" /\ hk > NumVerifyPages
    /\ hresult' = <<>>
    /\ hpc' = "done"
    /\ UNCHANGED <<hscript, hk, hlog, hall>>
    /\ UNCHANGED <<genVars, exVars, guessVars, batchVars, scoreVars>>

\* try_extract_email_from_site lines 142-149, find_sites main lines 210-216:
\* one page; its addresses join the set, a request that raises is passed over
AFetch ==
    /\ hscript \in {"find_sites", "enrich"} /\ hpc = "pages"
    /\ hk <= NumPagesOf(hscript)
    /\ \E out \in HarvestOutcomes[hscript] :
          /\ hlog' = Append(hlog, out)
          /\ hall' = hall \cup Range(out.emails)
    /\ hk' = hk + 1
    /\ UNCHANGED <<hscript, hpc, hresult>>
    /\ UNCHANGED <<genVars, exVars, guessVars, batchVars, scoreVars>>

\* try_extract_email_from_site line 151, find_sites main line 218:
\* best = pick_best_email(sorted(all_emails))
AEnd ==
    /\ hscript \in {"find_sites", "enrich"} /\ hpc = "pages"
    /\ hk > NumPagesOf(hscript)
    /\ hresult' = PickPreferred(Sorted(hall), PreferredOf(hscript))
    /\ hpc' = "done"
    /\ UNCHANGED <<hscript, hk, hlog, hall>>
    /\ UNCHANGED <<genVars, exVars, guessVars, batchVars, scoreVars>>

HarvestNext == VFetch \/ VEnd \/ AFetch \/ AEnd

SpecHarvest == HarvestInit /\ [][HarvestNext]_vars

----------------------------------------------------------------------------
(* Properties of the batch drivers *)

\* C1: in every batch driver a network failure while one company is processed
\* never terminates the batch: the companies after it are still processed and
\* the batch reaches its final report (no run ends anywhere else).
C1_BatchSurvivesFailures == bpc # "crashed"

\* the notes and e-mail writes of row i are final
RowFinished(i) == bi > i \/ bpc = "done"

\* C2: in the drivers that write to the database, every path through the loop
\* body of a company executes exactly one write of an outcome note on its
\* record, never zero and never two.
C2_OneOutcomeWritePerRow ==
    bscript \in {"find_sites", "enrich"} =>
        \A i \in 1..Len(brows) :
            /\ Len(notes[i]) <= 1
            /\ RowFinished(i) => Len(notes[i]) = 1

\* C11: no address containing a placeholder marker (example.com, test.com, ...)
\* becomes the e-mail of an output row of the search driver
C11_SearchOutputFiltered ==
    bscript = "search" =>
        \A k \in 1..Len(bresults) :
            ~HasBadHint(bresults[k].email, BAD_EMAIL_HINTS_VERIFY)

\* the candidate of a fetched link is the first of the highest-scored addresses
\* of the link, in the order seen, and None when there is no address
IsFirstMaximum(page) ==
    /\ (page.candidate = NoBest) <=> (page.seen = <<>>)
    /\ page.seen # <<>> =>
          \E k \in 1..Len(page.seen) :
              /\ page.candidate.email = normalize_email(page.seen[k])
              /\ page.candidate.confidence = page.scores[k]
              /\ \A j \in 1..Len(page.seen) : page.scores[j] <= page.scores[k]
              /\ \A j \in 1..(k - 1) : page.scores[j] < page.scores[k]

\* the confidence of the candidate of the q-th fetched link, -1 for None
ConfidenceOf(q) ==
    IF rowPages[q].candidate = NoBest THEN -1 ELSE rowPages[q].candidate.confidence

\* C13: pick_best_email returns nothing exactly for the empty set and otherwise
\* the first seen of the highest-scored addresses; the best of a company is the
\* first, in search order, of the highest-scored candidates of its pages
C13_FirstSeenMaximum ==
    (bscript = "search" /\ bpc \in {"pages", "emit"}) =>
        /\ \A q \in 1..Len(rowPages) : IsFirstMaximum(rowPages[q])
        /\ (bbest = NoBest) <=> (\A q \in 1..Len(rowPages) : ConfidenceOf(q) = -1)
        /\ bbest # NoBest =>
              \E p \in 1..Len(rowPages) :
                  /\ rowPages[p].candidate = bbest
                  /\ \A q \in 1..Len(rowPages) : ConfidenceOf(q) <= ConfidenceOf(p)
                  /\ \A q \in 1..(p - 1) : ConfidenceOf(q) < ConfidenceOf(p)

\* two addresses of the second link tie and the first seen is the candidate,
\* which replaces the lower candidate of the first link
C13_Witness ==
    /\ bscript = "search" /\ bpc = "emit" /\ Len(rowPages) = 2
    /\ Len(rowPages[2].seen) = 2
    /\ rowPages[2].scores[1] = rowPages[2].scores[2]
    /\ rowPages[2].candidate.email = normalize_email(rowPages[2].seen[1])
    /\ ConfidenceOf(1) \in 0..(ConfidenceOf(2) - 1)
    /\ bbest = rowPages[2].candidate

\* C14: a sleep separates any two consecutive external requests (search
\* query, page fetch) of a driver: never two requests since the last sleep
C14_SleepBetweenRequests == sinceSleep <= 1

\* a step that ends the row of a company for which no domain (find_sites,
\* enrich) or no result link (search) was produced
EndsRowWithoutDomain ==
    /\ bi' = bi + 1
    /\ \/ bscript = "find_sites" /\ bpc = "ddg"
       \/ bscript = "enrich" /\ bpc = "row"
       \/ bscript = "search" /\ bpc = "pages" /\ urls = 0

\* the row has the no_domain_found status and nothing else
NoDomainRecorded ==
    IF bscript = "search"
    THEN /\ Len(bresults') = Len(bresults) + 1
         /\ bresults'[Len(bresults')].row = bi
         /\ bresults'[Len(bresults')].reason = "no_domain_found"
         /\ bresults'[Len(bresults')].email = <<>>
    ELSE /\ notes'[bi] \in {<<"[site] no_domain_found">>,
                            <<"Sysiphe_enrich=no_domain_found">>}
         /\ contacts'[bi] = 0

\* C15: a company for which no domain is produced ends with the status
\* no_domain_found, no e-mail set, and no page fetched for it
C15_NoDomainTerminal ==
    [][EndsRowWithoutDomain => (NoDomainRecorded /\ rowFetches' = 0)]_vars

\* C16: a company whose search request raised is recorded as search_error with
\* an empty e-mail (search driver) and never as no_domain_found or not_found
C16_SearchErrorRecorded ==
    \A i \in 1..Len(brows) :
        (searchRaised[i] /\ RowFinished(i)) =>
            IF bscript = "search"
            THEN \E k \in 1..Len(bresults) :
                    /\ bresults[k].row = i
                    /\ bresults[k].reason = "search_error"
                    /\ bresults[k].email = <<>>
            ELSE \A n \in 1..Len(notes[i]) :
                    notes[i][n] \notin {"[site] no_domain_found",
                                        "Sysiphe_enrich=no_domain_found"}

\* C18: the search driver fetches at most --links result pages per company,
\* failed fetches included, and fetches no further page once the best
\* candidate has confidence 85 or more
C18_FetchCapAndEarlyStop ==
    bscript = "search" =>
        /\ fetched <= links
        /\ rowFetches <= links
        /\ Len(rowPages) = rowFetches
        /\ \A q \in 1..Len(rowPages) : \A p \in 1..(q - 1) :
              ConfidenceOf(p) < StopConfidence

\* the first link gave a candidate of confidence 85 or more and the loop was
\* left although a second link and a second fetch were available
C18_Witness ==
    /\ bscript = "search" /\ bpc = "emit"
    /\ fetched = 1 /\ links >= 2 /\ urls >= 2
    /\ bbest.confidence >= StopConfidence

\* C22: in the search driver every input row gives exactly one output row, in
\* input order, and in every output row the e-mail is empty exactly when the
\* confidence is 0: score_email never returns less than 5, so a found address
\* carries a confidence in 5..100, while the missing_legal_name, search_error
\* and not_found rows carry confidence 0 and an empty e-mail.
C22_OneRowPerInputAndConfidence ==
    bscript = "search" =>
        /\ Len(bresults) = bi - 1
        /\ bpc = "done" => Len(bresults) = Len(brows)
        /\ \A k \in 1..Len(bresults) :
              LET r == bresults[k]
              IN /\ r.row = k
                 /\ (r.email = <<>>) <=> (r.confidence = 0)
                 /\ r.reason \in {"missing_legal_name", "search_error", "not_found", "found"}
                 /\ r.reason = "found" => r.email # <<>> /\ r.confidence \in 5..100
                 /\ r.reason # "found" => r.email = <<>> /\ r.confidence = 0
                 /\ (r.reason = "missing_legal_name") <=> ~brows[k].named
        /\ \A q \in 1..Len(rowPages) : \A k \in 1..Len(rowPages[q].scores) :
              rowPages[q].scores[k] \in 5..100

\* a finished run of two rows: one found at the lowest score, one without e-mail
C22_Witness ==
    /\ bscript = "search" /\ bpc = "done" /\ Len(brows) = 2
    /\ Len(bresults) = 2
    /\ \E k \in 1..2 : bresults[k].reason = "found" /\ bresults[k].confidence = 5
    /\ \E k \in 1..2 : bresults[k].reason # "found" /\ bresults[k].confidence = 0

----------------------------------------------------------------------------
(* Properties of the site harvests *)

\* the filtered addresses of all the pages fetched with success
HarvestedUnion == UNION {Range(hlog[k].emails) : k \in {j \in 1..Len(hlog) : hlog[j].ok}}

\* C17: a finished site harvest has requested every page of its list, whatever
\* the earlier requests gave, and returns the selection over the union of the
\* filtered addresses of all the pages fetched with success
C17_HarvestVisitsAllPages ==
    hpc = "done" =>
        /\ Len(hlog) = NumPagesOf(hscript)
        /\ hresult = PickPreferred(Sorted(HarvestedUnion), PreferredOf(hscript))

----------------------------------------------------------------------------
(* Properties of scoring and selection *)

\* the address scored at position k is info@d
IsInfoAt(k, d) == emailSeq[k] = <<"i","n","f","o","@">> \o d

\* C12: when the expected domain is the domain d of an address, spelled bare or
\* with a scheme, a leading www. or a trailing path, the address is scored as
\* domain_match and never as domain_mismatch, and info@d scores at least 85
C12_ExactDomainScoresHigh ==
    \A k \in 1..Len(scored) : \A d \in ScoreDomains :
        (expected \in ExpectedForms(d) /\ domain_from_email(emailSeq[k]) = d)
        => /\ Contains(scored[k].reason, REASON.domain_match)
           /\ ~Contains(scored[k].reason, REASON.subdomain_match)
           /\ ~Contains(scored[k].reason, REASON.domain_mismatch)
           /\ IsInfoAt(k, d) => scored[k].score >= 85

\* position of the local part of an address in LOCALPART_PRIORITY, one past the
\* end of the list when it is not in it
RankOf(email) ==
    LET localpart == SplitOnce(normalize_email(email), "@")[1]
        hits == {i \in 1..Len(LOCALPART_PRIORITY) : LOCALPART_PRIORITY[i] = localpart}
    IN IF hits = {} THEN Len(LOCALPART_PRIORITY) + 1
       ELSE CHOOSE i \in hits : \A m \in hits : i <= m

\* C20: of two addresses of the same domain scored against the same expected
\* domain, the one whose local part ranks earlier in LOCALPART_PRIORITY has the
\* strictly higher final score, and pick_best_email selects it whatever the
\* order in which the two are seen
C20_EarlierRankWins ==
    \A j, k \in 1..Len(scored) :
        (/\ domain_from_email(emailSeq[j]) = domain_from_email(emailSeq[k])
         /\ RankOf(emailSeq[j]) < RankOf(emailSeq[k]))
        => /\ scored[j].score > scored[k].score
           /\ (spc = "done" /\ Len(emailSeq) = 2)
              => picked.email = normalize_email(emailSeq[j])

====
